---- MODULE Spec2Model ----
(***************************************************************************)
(* Personal Health Data Aggregator: the load -> merge pipeline of main(),  *)
(* with both record-error policies of the loaders:                         *)
(*   "skip"     src/tool/data_loader.py  (skip the record and warn)        *)
(*   "failfast" src/data_loader.py       (wrap the error and abort)        *)
(*                                                                         *)
(* Time is counted in whole hours since 00:00 of day 0; a calendar date is *)
(* a day number.  A float is held as an integer number of 1/Den units.     *)
(* JSON values are records tagged by the field t.                          *)
(***************************************************************************)
EXTENDS Integers, Sequences, FiniteSets, TLC

VARIABLES
    policy,        \* which loader module main is wired to: "skip" or "failfast"
    pc,            \* where main is
    data,          \* the entries of the file being loaded (data[key] of the loader)
    idx,           \* the loop index of the loader, counted from 0
    records,       \* the loader's records list
    skipped,       \* the loader's skipped list of <<index, reason>> pairs
    last,          \* which entry the last iteration took and what its body did
    sleep_data,    \* main's sleep_data
    workout_data,  \* main's workout_data
    daily_data,    \* merge_by_day's defaultdict
    mpos,          \* how many records the current loop of merge_by_day has taken
    merged,        \* main's merged
    err,           \* the exception that reached main's handlers
    shown,         \* the message main printed for it
    exit_code,     \* main's return value
    correlations,  \* main's correlations
    json_output,   \* main's json_output
    out_file,      \* what the output file holds
    heap,          \* the list objects made so far: heap[a] is the content of list a
    call,          \* which call of merge_by_day is running or has returned
    earlier,       \* the mapping an earlier call of merge_by_day returned
    opened         \* the file the running loader opened, and which loader it is

vars == <<policy, pc, data, idx, records, skipped, last, sleep_data, workout_data,
          daily_data, mpos, merged, err, shown, exit_code, correlations,
          json_output, out_file, heap, call, earlier, opened>>

\* ---------------------------------------------------------------- bounds
MaxSleep == 2
MaxWork == 2

\* ------------------------------------------------------------- constants
HoursPerDay == 24
Den == 2
MaxDurationHours == 24
MaxQuality == 100
MaxDurationMin == 1440

SLEEP_REQUIRED_FIELDS == {"sleep_start", "sleep_end", "duration_hours", "quality_score"}
WORKOUT_REQUIRED_FIELDS == {"id", "timestamp", "tz", "type", "duration_min", "calories"}

\* sorted(...) of field names: the alphabetical order of the names in use
FieldOrder == <<"calories", "duration_hours", "duration_min", "id", "quality_score",
                "sleep_end", "sleep_start", "timestamp", "type", "tz">>

sorted(S) == SelectSeq(FieldOrder, LAMBDA f : f \in S)

\* ----------------------------------------------------------- JSON values
JInt(n) == [t |-> "int", v |-> n]
\* a finite float, n/Den
JFloat(n) == [t |-> "float", v2 |-> n]
JInf == [t |-> "inf"]
JNull == [t |-> "null"]
\* the string "YYYY-MM-DD HH:MM:SS" (fmt "space"), "YYYY-MM-DDTHH:MM:SS" ("T"),
\* "...T...Z" ("Z"), "...T...+hh:00" ("offset"), or a calendar date that does
\* not exist ("nodate")
JTime(fmt, wall, off) == [t |-> "str", kind |-> "timestamp", fmt |-> fmt, wall |-> wall, off |-> off]
JZone(name) == [t |-> "str", kind |-> "zone", s |-> name]
JNumStr(n) == [t |-> "str", kind |-> "int", v |-> n]
JText(s) == [t |-> "str", kind |-> "text", s |-> s]
JDict(f) == [t |-> "dict", f |-> f]
JList(items) == [t |-> "list", items |-> items]

keys(entry) == DOMAIN entry.f

\* ------------------------------------------------------------ exceptions
Ok(v) == [ok |-> TRUE, v |-> v]
Raise(exc, msg) == [ok |-> FALSE, exc |-> exc, msg |-> msg]

\* ------------------------------------------------------- Python builtins
\* int(x): truncates a float toward zero, parses an integer literal
TruncDiv(n, d) == IF n >= 0 THEN n \div d ELSE -((-n) \div d)

py_int(x) ==
    CASE x.t = "int" -> Ok(x.v)
      [] x.t = "float" -> Ok(TruncDiv(x.v2, Den))
      [] x.t = "inf" -> Raise("OverflowError", [kind |-> "builtin", what |-> "int_of_infinity"])
      [] x.t = "str" -> IF x.kind = "int" THEN Ok(x.v)
                        ELSE Raise("ValueError", [kind |-> "builtin", what |-> "int_literal"])
      [] OTHER -> Raise("TypeError", [kind |-> "builtin", what |-> "int_argument"])

\* float(x), in 1/Den units; inf is kept apart
py_float(x) ==
    CASE x.t = "int" -> Ok([inf |-> FALSE, v2 |-> x.v * Den])
      [] x.t = "float" -> Ok([inf |-> FALSE, v2 |-> x.v2])
      [] x.t = "inf" -> Ok([inf |-> TRUE, v2 |-> 0])
      [] x.t = "str" -> IF x.kind = "int" THEN Ok([inf |-> FALSE, v2 |-> x.v * Den])
                        ELSE Raise("ValueError", [kind |-> "builtin", what |-> "float_literal"])
      [] OTHER -> Raise("TypeError", [kind |-> "builtin", what |-> "float_argument"])

\* str(x)
py_str(x) ==
    CASE x.t = "str" -> x
      [] x.t = "int" -> JNumStr(x.v)
      [] OTHER -> JText(x.t)

\* ------------------------------------------------------------- datetimes
date(dt) == dt.wall \div HoursPerDay

\* datetime.strptime(s, '%Y-%m-%d %H:%M:%S')
strptime(s) ==
    IF s.t # "str" THEN Raise("TypeError", [kind |-> "builtin", what |-> "strptime_argument"])
    ELSE IF s.kind = "timestamp" /\ s.fmt = "space"
         THEN Ok([wall |-> s.wall, aware |-> FALSE, off |-> 0])
         ELSE Raise("ValueError", [kind |-> "builtin", what |-> "strptime_format"])

\* s.replace('Z', '+00:00')
replace_Z(s) ==
    IF s.t # "str" THEN Raise("AttributeError", [kind |-> "builtin", what |-> "no_replace"])
    ELSE IF s.kind = "timestamp" /\ s.fmt = "Z"
         THEN Ok(JTime("offset", s.wall, 0))
         ELSE Ok(s)

\* datetime.fromisoformat(s) on a string
fromisoformat(s) ==
    IF s.kind = "timestamp" /\ s.fmt = "offset"
    THEN Ok([wall |-> s.wall, aware |-> TRUE, off |-> s.off])
    ELSE IF s.kind = "timestamp" /\ s.fmt \in {"space", "T"}
         THEN Ok([wall |-> s.wall, aware |-> FALSE, off |-> 0])
         ELSE Raise("ValueError", [kind |-> "builtin", what |-> "isoformat"])

\* ------------------------------------------------------ the zone database
KnownZones == {"UTC", "America/Los_Angeles", "Asia/Tokyo"}
\* keys that are not normalized relative paths
BadZoneKeys == {""}
\* Pacific daylight time ends at 02:00 local time of day 2
DstEnd == 2 * HoursPerDay + 2

\* ZoneInfo(key)
ZoneInfo(key) ==
    IF key.t # "str" THEN Raise("TypeError", [kind |-> "builtin", what |-> "zone_key_type"])
    ELSE IF key.kind # "zone" THEN Raise("ZoneInfoNotFoundError", [kind |-> "builtin", what |-> "no_zone"])
    ELSE IF key.s \in BadZoneKeys THEN Raise("ValueError", [kind |-> "builtin", what |-> "zone_key_path"])
    ELSE IF key.s \in KnownZones THEN Ok(key.s)
    ELSE Raise("ZoneInfoNotFoundError", [kind |-> "builtin", what |-> "no_zone"])

\* tz.utcoffset(local naive datetime), fold = 0
utcoffset(zone, wall) ==
    CASE zone = "UTC" -> 0
      [] zone = "Asia/Tokyo" -> 9
      [] zone = "America/Los_Angeles" -> IF wall < DstEnd THEN -7 ELSE -8

\* local_dt.replace(tzinfo=local_tz).astimezone(ZoneInfo('UTC'))
astimezone_utc(local_dt, zone) ==
    [wall |-> local_dt.wall - utcoffset(zone, local_dt.wall), aware |-> TRUE, off |-> 0]

\* --------------------------------------------- outcome of one loop body
Done(rec, steps) == [outcome |-> "record", rec |-> rec, steps |-> steps]
Fail(e, steps) == [outcome |-> "raise", exc |-> e.exc, msg |-> e.msg, steps |-> steps]

\* ================================================ src/tool/data_loader.py
validate_sleep_entry(entry, index) ==
    IF entry.t # "dict" THEN Raise("AttributeError", [kind |-> "builtin", what |-> "no_keys"])
    ELSE LET missing_fields == SLEEP_REQUIRED_FIELDS \ keys(entry)
         IN IF missing_fields # {}
            THEN Raise("ValueError", [kind |-> "missing_fields", what |-> "Sleep", index |-> index,
                                      fields |-> sorted(missing_fields),
                                      required |-> sorted(SLEEP_REQUIRED_FIELDS)])
            ELSE Ok(TRUE)

\* validate_workout_entry that names only the first missing field
validate_workout_entry_first_only(entry, index) ==
    IF entry.t # "dict" THEN Raise("AttributeError", [kind |-> "builtin", what |-> "no_keys"])
    ELSE LET missing_fields == WORKOUT_REQUIRED_FIELDS \ keys(entry)
         IN IF missing_fields # {}
            THEN Raise("ValueError", [kind |-> "missing_fields", what |-> "Workout", index |-> index,
                                      fields |-> <<Head(sorted(missing_fields))>>,
                                      required |-> sorted(WORKOUT_REQUIRED_FIELDS)])
            ELSE Ok(TRUE)

validate_workout_entry(entry, index) ==
    IF entry.t # "dict" THEN Raise("AttributeError", [kind |-> "builtin", what |-> "no_keys"])
    ELSE LET missing_fields == WORKOUT_REQUIRED_FIELDS \ keys(entry)
         IN IF missing_fields # {}
            THEN Raise("ValueError", [kind |-> "missing_fields", what |-> "Workout", index |-> index,
                                      fields |-> sorted(missing_fields),
                                      required |-> sorted(WORKOUT_REQUIRED_FIELDS)])
            ELSE Ok(TRUE)

\* one ISO timestamp: entry[k].replace('Z', '+00:00') then fromisoformat
tool_iso(s) ==
    LET r == replace_Z(s)
    IN IF ~r.ok THEN r ELSE fromisoformat(r.v)

\* lines 75-81: both timestamps, sleep_start first
tool_sleep_timestamps(entry) ==
    LET a == tool_iso(entry.f.sleep_start)
        b == tool_iso(entry.f.sleep_end)
        first == IF ~a.ok THEN a ELSE b
    IN IF a.ok /\ b.ok THEN Ok([sleep_start |-> a.v, sleep_end |-> b.v])
       ELSE IF first.exc = "ValueError"
            THEN Raise("ValueError", [kind |-> "invalid_timestamp", cause |-> first.msg])
            ELSE first

\* lines 84-93
tool_sleep_numeric(entry) ==
    LET d == py_float(entry.f.duration_hours)
        q == py_int(entry.f.quality_score)
        first == IF ~d.ok THEN d ELSE q
        wrap(m) == Raise("ValueError", [kind |-> "invalid_numeric", cause |-> m])
    IN IF ~(d.ok /\ q.ok)
       THEN IF first.exc \in {"ValueError", "TypeError"} THEN wrap(first.msg) ELSE first
       ELSE IF d.v.inf \/ d.v.v2 < 0 \/ d.v.v2 > MaxDurationHours * Den
            THEN wrap([kind |-> "range", field |-> "duration_hours", value |-> d.v,
                       lo |-> 0, hi |-> MaxDurationHours])
       ELSE IF q.v < 0 \/ q.v > MaxQuality
            THEN wrap([kind |-> "range", field |-> "quality_score", value |-> q.v,
                       lo |-> 0, hi |-> MaxQuality])
       ELSE Ok([duration_hours |-> d.v.v2, quality_score |-> q.v])

\* tool_sleep_record that takes the day the sleep started
tool_sleep_record_start_date(ts, n) ==
    [date_utc |-> date(ts.sleep_start),
     sleep_start_utc |-> ts.sleep_start,
     sleep_end_utc |-> ts.sleep_end,
     duration_hours |-> n.duration_hours,
     quality_score |-> n.quality_score]

\* lines 96-104: date_utc = sleep_end.date() and the SleepRecord
tool_sleep_record(ts, n) ==
    [date_utc |-> date(ts.sleep_end),
     sleep_start_utc |-> ts.sleep_start,
     sleep_end_utc |-> ts.sleep_end,
     duration_hours |-> n.duration_hours,
     quality_score |-> n.quality_score]

\* lines 71-104: the body of the try of load_sleep_data
tool_sleep_body(entry, index) ==
    LET v == validate_sleep_entry(entry, index)
    IN IF ~v.ok THEN Fail(v, <<"validate">>)
       ELSE LET ts == tool_sleep_timestamps(entry)
            IN IF ~ts.ok THEN Fail(ts, <<"validate", "parse_timestamp">>)
               ELSE LET n == tool_sleep_numeric(entry)
                    IN IF ~n.ok THEN Fail(n, <<"validate", "parse_timestamp", "numeric">>)
                       ELSE Done(tool_sleep_record(ts.v, n.v),
                                 <<"validate", "parse_timestamp", "numeric", "construct">>)

\* lines 146-153
tool_workout_tz(entry) ==
    LET z == ZoneInfo(entry.f.tz)
    IN IF z.ok THEN z
       ELSE IF z.exc = "ZoneInfoNotFoundError"
            THEN Raise("ValueError", [kind |-> "invalid_timezone", tz |-> entry.f.tz])
            ELSE z

\* lines 156-161
tool_workout_timestamp(entry) ==
    LET p == strptime(entry.f.timestamp)
    IN IF p.ok THEN p
       ELSE IF p.exc = "ValueError"
            THEN Raise("ValueError", [kind |-> "invalid_timestamp", cause |-> p.msg])
            ELSE p

\* tool_workout_convert that sees only a crossing into the next day
tool_workout_convert_forward_only(local_dt, local_tz) ==
    LET utc_dt == astimezone_utc(local_dt, local_tz)
        local_date == date(local_dt)
        utc_date == date(utc_dt)
    IN [utc_dt |-> utc_dt, utc_date |-> utc_date, crossed_boundary |-> utc_date > local_date]

\* lines 163-172
tool_workout_convert(local_dt, local_tz) ==
    LET utc_dt == astimezone_utc(local_dt, local_tz)
        local_date == date(local_dt)
        utc_date == date(utc_dt)
    IN [utc_dt |-> utc_dt, utc_date |-> utc_date, crossed_boundary |-> local_date # utc_date]

\* lines 175-184
tool_workout_numeric(entry) ==
    LET d == py_int(entry.f.duration_min)
        c == py_int(entry.f.calories)
        first == IF ~d.ok THEN d ELSE c
        wrap(m) == Raise("ValueError", [kind |-> "invalid_numeric", cause |-> m])
    IN IF ~(d.ok /\ c.ok)
       THEN IF first.exc \in {"ValueError", "TypeError"} THEN wrap(first.msg) ELSE first
       ELSE IF d.v < 0 \/ d.v > MaxDurationMin
            THEN wrap([kind |-> "range", field |-> "duration_min", value |-> d.v,
                       lo |-> 0, hi |-> MaxDurationMin])
       ELSE IF c.v < 0
            THEN wrap([kind |-> "range", field |-> "calories", value |-> c.v, lo |-> 0])
       ELSE Ok([duration_min |-> d.v, calories |-> c.v])

\* lines 186-196: the WorkoutRecord
tool_workout_record(entry, cv, n) ==
    [id |-> py_str(entry.f.id),
     timestamp_utc |-> cv.utc_dt,
     date_utc |-> cv.utc_date,
     original_timestamp |-> entry.f.timestamp,
     original_timezone |-> entry.f.tz,
     workout_type |-> py_str(entry.f.type),
     duration_min |-> n.duration_min,
     calories |-> n.calories,
     crossed_day_boundary |-> cv.crossed_boundary]

\* tool_workout_body that parses the timestamp before it resolves the zone
tool_workout_body_parse_first(entry, index) ==
    LET v == validate_workout_entry(entry, index)
    IN IF ~v.ok THEN Fail(v, <<"validate">>)
       ELSE LET p == tool_workout_timestamp(entry)
            IN IF ~p.ok THEN Fail(p, <<"validate", "parse_timestamp">>)
               ELSE LET z == tool_workout_tz(entry)
                    IN IF ~z.ok THEN Fail(z, <<"validate", "parse_timestamp", "resolve_tz">>)
                       ELSE LET cv == tool_workout_convert(p.v, z.v)
                                n == tool_workout_numeric(entry)
                            IN IF ~n.ok
                               THEN Fail(n, <<"validate", "parse_timestamp", "resolve_tz",
                                              "convert", "numeric">>)
                               ELSE Done(tool_workout_record(entry, cv, n.v),
                                         <<"validate", "parse_timestamp", "resolve_tz",
                                           "convert", "numeric", "construct">>)

\* lines 142-196: the body of the try of load_workout_data
tool_workout_body(entry, index) ==
    LET v == validate_workout_entry(entry, index)
    IN IF ~v.ok THEN Fail(v, <<"validate">>)
       ELSE LET z == tool_workout_tz(entry)
            IN IF ~z.ok THEN Fail(z, <<"validate", "resolve_tz">>)
               ELSE LET p == tool_workout_timestamp(entry)
                    IN IF ~p.ok THEN Fail(p, <<"validate", "resolve_tz", "parse_timestamp">>)
                       ELSE LET cv == tool_workout_convert(p.v, z.v)
                                n == tool_workout_numeric(entry)
                            IN IF ~n.ok
                               THEN Fail(n, <<"validate", "resolve_tz", "parse_timestamp",
                                              "convert", "numeric">>)
                               ELSE Done(tool_workout_record(entry, cv, n.v),
                                         <<"validate", "resolve_tz", "parse_timestamp",
                                           "convert", "numeric", "construct">>)

\* ===================================================== src/data_loader.py
\* validate_workout_entry as redefined by the top-level module
strict_validate_workout_entry(entry, index) ==
    IF entry.t # "dict" THEN Raise("AttributeError", [kind |-> "builtin", what |-> "no_keys"])
    ELSE LET missing_fields == WORKOUT_REQUIRED_FIELDS \ keys(entry)
         IN IF missing_fields # {}
            THEN Raise("ValueError", [kind |-> "missing_fields", what |-> "Workout", index |-> index,
                                      fields |-> sorted(missing_fields),
                                      required |-> sorted(WORKOUT_REQUIRED_FIELDS)])
            ELSE Ok(TRUE)

strict_iso(s) ==
    LET r == replace_Z(s)
    IN IF ~r.ok THEN r ELSE fromisoformat(r.v)

\* lines 79-86
strict_sleep_timestamps(entry, index) ==
    LET a == strict_iso(entry.f.sleep_start)
        b == strict_iso(entry.f.sleep_end)
        first == IF ~a.ok THEN a ELSE b
    IN IF a.ok /\ b.ok THEN Ok([sleep_start |-> a.v, sleep_end |-> b.v])
       ELSE IF first.exc = "ValueError"
            THEN Raise("ValueError", [kind |-> "invalid_timestamp", index |-> index,
                                      cause |-> first.msg])
            ELSE first

\* lines 89-98
strict_sleep_numeric(entry, index) ==
    LET d == py_float(entry.f.duration_hours)
        q == py_int(entry.f.quality_score)
        first == IF ~d.ok THEN d ELSE q
        wrap(m) == Raise("ValueError", [kind |-> "invalid_numeric", index |-> index, cause |-> m])
    IN IF ~(d.ok /\ q.ok)
       THEN IF first.exc \in {"ValueError", "TypeError"} THEN wrap(first.msg) ELSE first
       ELSE IF d.v.inf \/ d.v.v2 < 0 \/ d.v.v2 > MaxDurationHours * Den
            THEN wrap([kind |-> "range", field |-> "duration_hours", value |-> d.v,
                       lo |-> 0, hi |-> MaxDurationHours])
       ELSE IF q.v < 0 \/ q.v > MaxQuality
            THEN wrap([kind |-> "range", field |-> "quality_score", value |-> q.v,
                       lo |-> 0, hi |-> MaxQuality])
       ELSE Ok([duration_hours |-> d.v.v2, quality_score |-> q.v])

\* lines 101-109: date_utc = sleep_end.date() and the SleepRecord
strict_sleep_record(ts, n) ==
    [date_utc |-> date(ts.sleep_end),
     sleep_start_utc |-> ts.sleep_start,
     sleep_end_utc |-> ts.sleep_end,
     duration_hours |-> n.duration_hours,
     quality_score |-> n.quality_score]

\* lines 75-109: the body of the try of load_sleep_data
strict_sleep_body(entry, index) ==
    LET v == validate_sleep_entry(entry, index)
    IN IF ~v.ok THEN Fail(v, <<"validate">>)
       ELSE LET ts == strict_sleep_timestamps(entry, index)
            IN IF ~ts.ok THEN Fail(ts, <<"validate", "parse_timestamp">>)
               ELSE LET n == strict_sleep_numeric(entry, index)
                    IN IF ~n.ok THEN Fail(n, <<"validate", "parse_timestamp", "numeric">>)
                       ELSE Done(strict_sleep_record(ts.v, n.v),
                                 <<"validate", "parse_timestamp", "numeric", "construct">>)

\* lines 163-172
strict_workout_tz(entry, index) ==
    LET z == ZoneInfo(entry.f.tz)
    IN IF z.ok THEN z
       ELSE IF z.exc = "ZoneInfoNotFoundError"
            THEN Raise("ValueError", [kind |-> "invalid_timezone", index |-> index,
                                      tz |-> entry.f.tz])
            ELSE z

\* lines 175-181
strict_workout_timestamp(entry, index) ==
    LET p == strptime(entry.f.timestamp)
    IN IF p.ok THEN p
       ELSE IF p.exc = "ValueError"
            THEN Raise("ValueError", [kind |-> "invalid_timestamp", index |-> index,
                                      cause |-> p.msg])
            ELSE p

\* strict_workout_convert that attributes the workout to its local date
strict_workout_convert_local_date(local_dt, local_tz) ==
    LET utc_dt == astimezone_utc(local_dt, local_tz)
        local_date == date(local_dt)
        utc_date == date(utc_dt)
    IN [utc_dt |-> utc_dt, utc_date |-> local_date, crossed_boundary |-> local_date # utc_date]

\* lines 183-192
strict_workout_convert(local_dt, local_tz) ==
    LET utc_dt == astimezone_utc(local_dt, local_tz)
        local_date == date(local_dt)
        utc_date == date(utc_dt)
    IN [utc_dt |-> utc_dt, utc_date |-> utc_date, crossed_boundary |-> local_date # utc_date]

\* lines 195-204
strict_workout_numeric(entry, index) ==
    LET d == py_int(entry.f.duration_min)
        c == py_int(entry.f.calories)
        first == IF ~d.ok THEN d ELSE c
        wrap(m) == Raise("ValueError", [kind |-> "invalid_numeric", index |-> index, cause |-> m])
    IN IF ~(d.ok /\ c.ok)
       THEN IF first.exc \in {"ValueError", "TypeError"} THEN wrap(first.msg) ELSE first
       ELSE IF d.v < 0 \/ d.v > MaxDurationMin
            THEN wrap([kind |-> "range", field |-> "duration_min", value |-> d.v,
                       lo |-> 0, hi |-> MaxDurationMin])
       ELSE IF c.v < 0
            THEN wrap([kind |-> "range", field |-> "calories", value |-> c.v, lo |-> 0])
       ELSE Ok([duration_min |-> d.v, calories |-> c.v])

\* lines 206-216: the WorkoutRecord
strict_workout_record(entry, cv, n) ==
    [id |-> py_str(entry.f.id),
     timestamp_utc |-> cv.utc_dt,
     date_utc |-> cv.utc_date,
     original_timestamp |-> entry.f.timestamp,
     original_timezone |-> entry.f.tz,
     workout_type |-> py_str(entry.f.type),
     duration_min |-> n.duration_min,
     calories |-> n.calories,
     crossed_day_boundary |-> cv.crossed_boundary]

\* lines 159-216: the body of the try of load_workout_data
strict_workout_body(entry, index) ==
    LET v == strict_validate_workout_entry(entry, index)
    IN IF ~v.ok THEN Fail(v, <<"validate">>)
       ELSE LET z == strict_workout_tz(entry, index)
            IN IF ~z.ok THEN Fail(z, <<"validate", "resolve_tz">>)
               ELSE LET p == strict_workout_timestamp(entry, index)
                    IN IF ~p.ok THEN Fail(p, <<"validate", "resolve_tz", "parse_timestamp">>)
                       ELSE LET cv == strict_workout_convert(p.v, z.v)
                                n == strict_workout_numeric(entry, index)
                            IN IF ~n.ok
                               THEN Fail(n, <<"validate", "resolve_tz", "parse_timestamp",
                                              "convert", "numeric">>)
                               ELSE Done(strict_workout_record(entry, cv, n.v),
                                         <<"validate", "resolve_tz", "parse_timestamp",
                                           "convert", "numeric", "construct">>)

\* ============================================================== the inputs
H(d, h) == d * HoursPerDay + h

SleepBase == [sleep_start |-> JTime("Z", H(0, 22), 0), sleep_end |-> JTime("Z", H(1, 6), 0),
              duration_hours |-> JInt(8), quality_score |-> JInt(85)]

SleepEntries ==
    { JDict(SleepBase),
      JDict([SleepBase EXCEPT !.sleep_start = JTime("Z", H(2, 1), 0),
                              !.sleep_end = JTime("Z", H(2, 6), 0),
                              !.duration_hours = JFloat(11), !.quality_score = JInt(60)]),
      JDict([SleepBase EXCEPT !.sleep_start = JTime("space", H(0, 23), 0),
                              !.sleep_end = JTime("offset", H(1, 1), 5),
                              !.duration_hours = JFloat(12), !.quality_score = JNumStr(70)]),
      JDict([SleepBase EXCEPT !.sleep_start = JTime("Z", H(1, 23), 0),
                              !.sleep_end = JTime("Z", H(2, 6), 0),
                              !.duration_hours = JInt(7), !.quality_score = JInt(90)]),
      JDict([sleep_end |-> JText("soon"), duration_hours |-> JInt(8)]),
      JInt(5),
      JDict([SleepBase EXCEPT !.quality_score = JFloat(-1)]),
      JDict([SleepBase EXCEPT !.duration_hours = JFloat(49)]),
      JDict([SleepBase EXCEPT !.quality_score = JInt(101)]),
      JDict([SleepBase EXCEPT !.sleep_end = JText("soon")]),
      JDict([SleepBase EXCEPT !.sleep_start = JInt(5)]),
      JDict([SleepBase EXCEPT !.quality_score = JInf]) }

WorkoutBase == [id |-> JText("w1"), timestamp |-> JTime("space", H(1, 23), 0),
                tz |-> JZone("America/Los_Angeles"), type |-> JText("run"),
                duration_min |-> JInt(30), calories |-> JInt(100)]

WorkoutEntries ==
    { JDict(WorkoutBase),
      JDict([WorkoutBase EXCEPT !.id = JInt(2), !.timestamp = JTime("space", H(1, 12), 0),
                                !.tz = JZone("UTC"), !.duration_min = JInt(45),
                                !.calories = JInt(200)]),
      JDict([WorkoutBase EXCEPT !.id = JText("w3"), !.timestamp = JTime("space", H(2, 1), 0),
                                !.tz = JZone("Asia/Tokyo"), !.duration_min = JInt(20),
                                !.calories = JInt(0)]),
      JDict([WorkoutBase EXCEPT !.id = JText("w4"), !.timestamp = JTime("space", H(2, 12), 0),
                                !.duration_min = JNumStr(60), !.calories = JInt(150)]),
      JDict([id |-> JText("w5"), timestamp |-> JText("noon"), type |-> JText("run"),
             duration_min |-> JInt(30)]),
      JDict([WorkoutBase EXCEPT !.timestamp = JText("noon"), !.tz = JZone("Mars/Phobos")]),
      JDict([WorkoutBase EXCEPT !.timestamp = JTime("T", H(1, 12), 0), !.tz = JZone("UTC")]),
      JNull,
      JDict([WorkoutBase EXCEPT !.id = JText("w9"), !.calories = JFloat(-1)]),
      JDict([WorkoutBase EXCEPT !.calories = JInt(-5)]),
      JDict([WorkoutBase EXCEPT !.duration_min = JInt(MaxDurationMin + 1)]),
      JDict([WorkoutBase EXCEPT !.calories = JInf]),
      JDict([WorkoutBase EXCEPT !.tz = JInt(5)]) }

Lists(S, n) == UNION { [1..k -> S] : k \in 0..n }

\* a file on disk: absent, not JSON, or a JSON document
Files(key, other, S, n) ==
    { [disk |-> "missing"], [disk |-> "malformed"],
      [disk |-> "json", top |-> JInt(5)],
      [disk |-> "json", top |-> JDict(other :> JList(<<>>))],
      [disk |-> "json", top |-> JDict(key :> JInt(5))] }
    \cup { [disk |-> "json", top |-> JDict(key :> JList(l))] : l \in Lists(S, n) }

SleepFiles == Files("records", "workout_log", SleepEntries, MaxSleep)
WorkoutFiles == Files("workout_log", "records", WorkoutEntries, MaxWork)

\* ============================================================ the loaders
\* read_file that takes a value that is not a list for an empty list
read_file_any_value(file, key) ==
    IF file.disk = "missing" THEN Raise("FileNotFoundError", [kind |-> "file_not_found"])
    ELSE IF file.disk = "malformed" THEN Raise("ValueError", [kind |-> "invalid_json"])
    ELSE IF file.top.t \notin {"dict", "list", "str"}
         THEN Raise("TypeError", [kind |-> "builtin", what |-> "not_iterable"])
    ELSE IF file.top.t # "dict" \/ key \notin DOMAIN file.top.f
         THEN Raise("KeyError", [kind |-> "missing_key", key |-> key])
    ELSE IF file.top.f[key].t # "list" THEN Ok(<<>>)
    ELSE Ok(file.top.f[key].items)

\* src/tool/data_loader.py: open, json.load and the two structure checks, lines
\* 52-65 and 123-136
read_file(file, key) ==
    IF file.disk = "missing" THEN Raise("FileNotFoundError", [kind |-> "file_not_found"])
    ELSE IF file.disk = "malformed" THEN Raise("ValueError", [kind |-> "invalid_json"])
    ELSE IF file.top.t \notin {"dict", "list", "str"}
         THEN Raise("TypeError", [kind |-> "builtin", what |-> "not_iterable"])
    ELSE IF file.top.t # "dict" \/ key \notin DOMAIN file.top.f
         THEN Raise("KeyError", [kind |-> "missing_key", key |-> key])
    ELSE IF file.top.f[key].t # "list"
         THEN Raise("TypeError", [kind |-> "not_a_list", key |-> key])
    ELSE Ok(file.top.f[key].items)

\* src/data_loader.py: the same steps, lines 57-70 and 141-154
strict_read_file(file, key) ==
    IF file.disk = "missing" THEN Raise("FileNotFoundError", [kind |-> "file_not_found"])
    ELSE IF file.disk = "malformed" THEN Raise("ValueError", [kind |-> "invalid_json"])
    ELSE IF file.top.t \notin {"dict", "list", "str"}
         THEN Raise("TypeError", [kind |-> "builtin", what |-> "not_iterable"])
    ELSE IF file.top.t # "dict" \/ key \notin DOMAIN file.top.f
         THEN Raise("KeyError", [kind |-> "missing_key", key |-> key])
    ELSE IF file.top.f[key].t # "list"
         THEN Raise("TypeError", [kind |-> "not_a_list", key |-> key])
    ELSE Ok(file.top.f[key].items)

\* main_handler without the clause for KeyError and TypeError
main_handler_no_structure_clause(exc) ==
    CASE exc = "FileNotFoundError" -> "File Error"
      [] exc = "ValueError" -> "Data Validation Error"
      [] OTHER -> "Unexpected error"

\* the except clauses of main, in order
main_handler(exc) ==
    CASE exc = "FileNotFoundError" -> "File Error"
      [] exc \in {"KeyError", "ZoneInfoNotFoundError", "TypeError"} -> "Data Structure Error"
      [] exc = "ValueError" -> "Data Validation Error"
      [] OTHER -> "Unexpected error"

\* an exception leaves the try block of main
Exit(e) ==
    /\ pc' = "exit"
    /\ err' = [exc |-> e.exc, msg |-> e.msg, at |-> pc]
    /\ shown' = main_handler(e.exc)
    /\ exit_code' = 1

NoErr == [exc |-> "none"]
NoFile == [loader |-> "none"]
NoOutput == [metadata |-> "none"]
NoLast == [loader |-> "none", index |-> -1, result |-> [outcome |-> "none"]]

SleepCaught == {"KeyError", "ValueError", "TypeError", "ZoneInfoNotFoundError"}
WorkoutCaught == {"KeyError", "ValueError", "ZoneInfoNotFoundError", "TypeError"}

Init ==
    /\ policy \in {"skip", "failfast"}
    /\ pc = "load_sleep"
    /\ data = <<>>
    /\ idx = 0
    /\ records = <<>>
    /\ skipped = <<>>
    /\ last = NoLast
    /\ sleep_data = <<>>
    /\ workout_data = <<>>
    /\ daily_data = <<>>
    /\ mpos = 0
    /\ merged = <<>>
    /\ err = NoErr
    /\ shown = ""
    /\ exit_code = -1
    /\ correlations = <<>>
    /\ json_output = NoOutput
    /\ out_file = NoOutput
    /\ heap = <<>>
    /\ call = 1
    /\ earlier = <<>>
    /\ opened = NoFile

\* load_sleep_data up to the loop
LoadSleepOpen ==
    /\ pc = "load_sleep"
    /\ \E file \in SleepFiles :
         LET r == IF policy = "skip" THEN read_file(file, "records")
                  ELSE strict_read_file(file, "records")
         IN /\ opened' = [loader |-> "sleep", file |-> file]
            /\ IF r.ok
               THEN /\ data' = r.v
                    /\ pc' = "sleep_loop"
                    /\ UNCHANGED <<err, shown, exit_code>>
               ELSE /\ Exit([exc |-> r.exc, msg |-> r.msg])
                    /\ UNCHANGED data
    /\ idx' = 0
    /\ records' = <<>>
    /\ skipped' = <<>>
    /\ last' = NoLast
    /\ UNCHANGED <<policy, heap, call, earlier, out_file, json_output, correlations, sleep_data, workout_data, daily_data, mpos, merged>>

\* one iteration of the loop of src/tool/data_loader.py load_sleep_data
LoadSleepIterSkip ==
    /\ policy = "skip"
    /\ pc = "sleep_loop"
    /\ idx < Len(data)
    /\ LET r == tool_sleep_body(data[idx + 1], idx)
       IN /\ last' = [loader |-> "sleep", index |-> idx, result |-> r]
          /\ IF r.outcome = "record"
             THEN /\ records' = Append(records, r.rec)
                  /\ idx' = idx + 1
                  /\ UNCHANGED <<skipped, pc, err, shown, exit_code>>
             ELSE IF r.exc \in SleepCaught
             THEN /\ skipped' = Append(skipped, <<idx, r.msg>>)
                  /\ idx' = idx + 1
                  /\ UNCHANGED <<records, pc, err, shown, exit_code>>
             ELSE /\ Exit([exc |-> r.exc, msg |-> r.msg])
                  /\ UNCHANGED <<records, skipped, idx>>
    /\ UNCHANGED <<policy, heap, call, earlier, out_file, json_output, correlations, opened, data, sleep_data, workout_data, daily_data, mpos, merged>>

\* one iteration of the loop of src/data_loader.py load_sleep_data
LoadSleepIterFailfast ==
    /\ policy = "failfast"
    /\ pc = "sleep_loop"
    /\ idx < Len(data)
    /\ LET r == strict_sleep_body(data[idx + 1], idx)
       IN /\ last' = [loader |-> "sleep", index |-> idx, result |-> r]
          /\ IF r.outcome = "record"
             THEN /\ records' = Append(records, r.rec)
                  /\ idx' = idx + 1
                  /\ UNCHANGED <<pc, err, shown, exit_code>>
             ELSE IF r.exc \in SleepCaught
             THEN /\ Exit([exc |-> "ValueError",
                           msg |-> [kind |-> "error_processing", what |-> "sleep",
                                    index |-> idx, cause |-> r.msg]])
                  /\ UNCHANGED <<records, idx>>
             ELSE /\ Exit([exc |-> r.exc, msg |-> r.msg])
                  /\ UNCHANGED <<records, idx>>
    /\ UNCHANGED <<policy, heap, call, earlier, out_file, json_output, correlations, opened, data, skipped, sleep_data, workout_data, daily_data, mpos, merged>>

\* the loop is over: the warnings are printed and records is returned to main
LoadSleepReturn ==
    /\ pc = "sleep_loop"
    /\ idx = Len(data)
    /\ sleep_data' = records
    /\ pc' = "load_workout"
    /\ data' = <<>>
    /\ idx' = 0
    /\ records' = <<>>
    /\ skipped' = <<>>
    /\ last' = NoLast
    /\ opened' = NoFile
    /\ UNCHANGED <<policy, heap, call, earlier, out_file, json_output, correlations, workout_data, daily_data, mpos, merged, err, shown, exit_code>>

\* load_workout_data up to the loop
LoadWorkoutOpen ==
    /\ pc = "load_workout"
    /\ \E file \in WorkoutFiles :
         LET r == IF policy = "skip" THEN read_file(file, "workout_log")
                  ELSE strict_read_file(file, "workout_log")
         IN /\ opened' = [loader |-> "workout", file |-> file]
            /\ IF r.ok
               THEN /\ data' = r.v
                    /\ pc' = "workout_loop"
                    /\ UNCHANGED <<err, shown, exit_code>>
               ELSE /\ Exit([exc |-> r.exc, msg |-> r.msg])
                    /\ UNCHANGED data
    /\ idx' = 0
    /\ records' = <<>>
    /\ skipped' = <<>>
    /\ last' = NoLast
    /\ UNCHANGED <<policy, heap, call, earlier, out_file, json_output, correlations, sleep_data, workout_data, daily_data, mpos, merged>>

\* one iteration of the loop of src/tool/data_loader.py load_workout_data
LoadWorkoutIterSkip ==
    /\ policy = "skip"
    /\ pc = "workout_loop"
    /\ idx < Len(data)
    /\ LET r == tool_workout_body(data[idx + 1], idx)
       IN /\ last' = [loader |-> "workout", index |-> idx, result |-> r]
          /\ IF r.outcome = "record"
             THEN /\ records' = Append(records, r.rec)
                  /\ idx' = idx + 1
                  /\ UNCHANGED <<skipped, pc, err, shown, exit_code>>
             ELSE IF r.exc \in WorkoutCaught
             THEN /\ skipped' = Append(skipped, <<idx, r.msg>>)
                  /\ idx' = idx + 1
                  /\ UNCHANGED <<records, pc, err, shown, exit_code>>
             ELSE /\ Exit([exc |-> r.exc, msg |-> r.msg])
                  /\ UNCHANGED <<records, skipped, idx>>
    /\ UNCHANGED <<policy, heap, call, earlier, out_file, json_output, correlations, opened, data, sleep_data, workout_data, daily_data, mpos, merged>>

\* one iteration of the loop of src/data_loader.py load_workout_data
LoadWorkoutIterFailfast ==
    /\ policy = "failfast"
    /\ pc = "workout_loop"
    /\ idx < Len(data)
    /\ LET r == strict_workout_body(data[idx + 1], idx)
       IN /\ last' = [loader |-> "workout", index |-> idx, result |-> r]
          /\ IF r.outcome = "record"
             THEN /\ records' = Append(records, r.rec)
                  /\ idx' = idx + 1
                  /\ UNCHANGED <<pc, err, shown, exit_code>>
             ELSE IF r.exc \in WorkoutCaught
             THEN /\ Exit([exc |-> "ValueError",
                           msg |-> [kind |-> "error_processing", what |-> "workout",
                                    index |-> idx, cause |-> r.msg]])
                  /\ UNCHANGED <<records, idx>>
             ELSE /\ Exit([exc |-> r.exc, msg |-> r.msg])
                  /\ UNCHANGED <<records, idx>>
    /\ UNCHANGED <<policy, heap, call, earlier, out_file, json_output, correlations, opened, data, skipped, sleep_data, workout_data, daily_data, mpos, merged>>

\* the loop is over: records is returned to main, which calls merge_by_day
LoadWorkoutReturn ==
    /\ pc = "workout_loop"
    /\ idx = Len(data)
    /\ workout_data' = records
    /\ pc' = "merge_sleep"
    /\ data' = <<>>
    /\ idx' = 0
    /\ records' = <<>>
    /\ skipped' = <<>>
    /\ last' = NoLast
    /\ daily_data' = <<>>
    /\ opened' = NoFile
    /\ mpos' = 0
    /\ UNCHANGED <<policy, heap, call, earlier, out_file, json_output, correlations, sleep_data, merged, err, shown, exit_code>>

\* ================================================== src/tool/models.py
\* Python's None where a date, a number of hours or a score may stand: a value
\* that is none of them
None == -999

\* the address of the list object that [] makes on the heap hp
alloc(hp) == Len(hp) + 1

\* DailyAggregate whose workouts is one list that every aggregate shares
DailyAggregate_shared_list(d, a) ==
    [date_utc |-> d, sleep_hours |-> None, sleep_quality |-> None, workouts |-> 1,
     total_calories |-> 0, total_workout_minutes |-> 0]

\* DailyAggregate(date_utc=d) with the defaults, after __post_init__ has put
\* the new list a in workouts
DailyAggregate(d, a) ==
    [date_utc |-> d, sleep_hours |-> None, sleep_quality |-> None, workouts |-> a,
     total_calories |-> 0, total_workout_minutes |-> 0]

\* ================================================== src/tool/merger.py
\* daily_data[day] of the defaultdict, in the memory m = [dd, heap]: a missing
\* key is first given the default, whose list is new on the heap
getitem(m, day) ==
    IF day \in DOMAIN m.dd THEN m
    ELSE [dd |-> (day :> DailyAggregate(None, alloc(m.heap))) @@ m.dd,
          heap |-> Append(m.heap, <<>>)]

\* merge_sleep without the assignment of line 27
merge_sleep_no_date(m, sleep) ==
    LET day == sleep.date_utc
        m1 == getitem(m, day)
    IN [m1 EXCEPT !.dd[day].sleep_hours = sleep.duration_hours,
                  !.dd[day].sleep_quality = sleep.quality_score]

\* merge_sleep that keeps the first sleep record of a date
merge_sleep_first_wins(m, sleep) ==
    LET day == sleep.date_utc
        m1 == getitem(m, day)
    IN IF m1.dd[day].sleep_hours # None THEN m1
       ELSE [m1 EXCEPT !.dd[day].date_utc = day,
                       !.dd[day].sleep_hours = sleep.duration_hours,
                       !.dd[day].sleep_quality = sleep.quality_score]

\* lines 26-29
merge_sleep(m, sleep) ==
    LET day == sleep.date_utc
        m1 == getitem(m, day)
    IN [m1 EXCEPT !.dd[day].date_utc = day,
                  !.dd[day].sleep_hours = sleep.duration_hours,
                  !.dd[day].sleep_quality = sleep.quality_score]

\* merge_workout that assigns the total instead of adding to it
merge_workout_overwrite(m, workout) ==
    LET day == workout.date_utc
        m1 == getitem(m, day)
    IN [m1 EXCEPT !.dd[day].date_utc = day,
                  !.heap[m1.dd[day].workouts] = Append(@, workout),
                  !.dd[day].total_calories = workout.calories,
                  !.dd[day].total_workout_minutes = @ + workout.duration_min]

\* merge_workout that files the workout under its local date
merge_workout_local_day(m, workout) ==
    LET day == date(strptime(workout.original_timestamp).v)
        m1 == getitem(m, day)
    IN [m1 EXCEPT !.dd[day].date_utc = day,
                  !.heap[m1.dd[day].workouts] = Append(@, workout),
                  !.dd[day].total_calories = @ + workout.calories,
                  !.dd[day].total_workout_minutes = @ + workout.duration_min]

\* lines 33-37
merge_workout(m, workout) ==
    LET day == workout.date_utc
        m1 == getitem(m, day)
    IN [m1 EXCEPT !.dd[day].date_utc = day,
                  !.heap[m1.dd[day].workouts] = Append(@, workout),
                  !.dd[day].total_calories = @ + workout.calories,
                  !.dd[day].total_workout_minutes = @ + workout.duration_min]

\* the memory merge_by_day works on
Memory == [dd |-> daily_data, heap |-> heap]

\* one iteration of the first loop of merge_by_day
MergeSleepStep ==
    /\ pc = "merge_sleep"
    /\ mpos < Len(sleep_data)
    /\ LET m == merge_sleep(Memory, sleep_data[mpos + 1])
       IN daily_data' = m.dd /\ heap' = m.heap
    /\ mpos' = mpos + 1
    /\ UNCHANGED <<policy, call, earlier, out_file, json_output, correlations, opened, pc, data, idx, records, skipped, last, sleep_data, workout_data,
                   merged, err, shown, exit_code>>

\* the first loop is over
MergeSleepDone ==
    /\ pc = "merge_sleep"
    /\ mpos = Len(sleep_data)
    /\ pc' = "merge_workout"
    /\ mpos' = 0
    /\ UNCHANGED <<policy, heap, call, earlier, out_file, json_output, correlations, opened, data, idx, records, skipped, last, sleep_data, workout_data,
                   daily_data, merged, err, shown, exit_code>>

\* one iteration of the second loop of merge_by_day
MergeWorkoutStep ==
    /\ pc = "merge_workout"
    /\ mpos < Len(workout_data)
    /\ LET m == merge_workout(Memory, workout_data[mpos + 1])
       IN daily_data' = m.dd /\ heap' = m.heap
    /\ mpos' = mpos + 1
    /\ UNCHANGED <<policy, call, earlier, out_file, json_output, correlations, opened, pc, data, idx, records, skipped, last, sleep_data, workout_data,
                   merged, err, shown, exit_code>>

\* return dict(daily_data)
MergeReturn ==
    /\ pc = "merge_workout"
    /\ mpos = Len(workout_data)
    /\ merged' = daily_data
    /\ pc' = "merged"
    /\ UNCHANGED <<policy, heap, call, earlier, out_file, json_output, correlations, opened, data, idx, records, skipped, last, sleep_data, workout_data,
                   daily_data, mpos, err, shown, exit_code>>

\* ------------------------------------------------- calculate_correlations
LowSleepHours == 6
GoodSleepHours == 7

\* the sum of total_calories over the aggregates of the days S
RECURSIVE sum_calories(_, _)
sum_calories(dd, S) ==
    IF S = {} THEN 0
    ELSE LET d == CHOOSE x \in S : TRUE
         IN dd[d].total_calories + sum_calories(dd, S \ {d})

\* statistics.mean of the total_calories of the days S (S is not empty): the
\* exact quotient num/den
mean_calories(dd, S) == [num |-> sum_calories(dd, S), den |-> Cardinality(S)]

\* lines 48-51, as the days of the aggregates listed
low_sleep_days(dd) ==
    { d \in DOMAIN dd : /\ dd[d].sleep_hours # None
                        /\ dd[d].sleep_hours < LowSleepHours * Den
                        /\ dd[d].total_calories > 0 }

\* good_sleep_days that takes every day of 6 hours or more
good_sleep_days_from_six(dd) ==
    { d \in DOMAIN dd : /\ dd[d].sleep_hours # None
                        /\ dd[d].sleep_hours >= LowSleepHours * Den
                        /\ dd[d].total_calories > 0 }

\* lines 53-56
good_sleep_days(dd) ==
    { d \in DOMAIN dd : /\ dd[d].sleep_hours # None
                        /\ dd[d].sleep_hours >= GoodSleepHours * Den
                        /\ dd[d].total_calories > 0 }

\* line 70
days_with_sleep_data(dd) == { d \in DOMAIN dd : dd[d].sleep_hours # None }

\* lines 46-90: the dict results; a key is present only if its branch ran
calculate_correlations(dd, hp) ==
    LET low == low_sleep_days(dd)
        good == good_sleep_days(dd)
        slept == days_with_sleep_data(dd)
        total_low_sleep == { d \in slept : dd[d].sleep_hours < LowSleepHours * Den }
        total_good_sleep == { d \in slept : dd[d].sleep_hours >= GoodSleepHours * Den }
        low_sleep_with_workout == { d \in total_low_sleep : Len(hp[dd[d].workouts]) > 0 }
        good_sleep_with_workout == { d \in total_good_sleep : Len(hp[dd[d].workouts]) > 0 }
        r_low == IF low # {}
                 THEN [avg_calories_low_sleep |-> mean_calories(dd, low),
                       low_sleep_day_count |-> Cardinality(low)]
                 ELSE <<>>
        r_good == IF good # {}
                  THEN [avg_calories_good_sleep |-> mean_calories(dd, good),
                        good_sleep_day_count |-> Cardinality(good)]
                  ELSE <<>>
        r_rate_low == IF slept # {} /\ Cardinality(total_low_sleep) > 0
                      THEN [workout_rate_low_sleep |->
                               [num |-> Cardinality(low_sleep_with_workout),
                                den |-> Cardinality(total_low_sleep)]]
                      ELSE <<>>
        r_rate_good == IF slept # {} /\ Cardinality(total_good_sleep) > 0
                       THEN [workout_rate_good_sleep |->
                                [num |-> Cardinality(good_sleep_with_workout),
                                 den |-> Cardinality(total_good_sleep)]]
                       ELSE <<>>
    IN r_low @@ r_good @@ r_rate_low @@ r_rate_good

\* main line 123 (the print_* calls of lines 110-127 only write to the console)
Correlate ==
    /\ pc = "merged"
    /\ correlations' = calculate_correlations(merged, heap)
    /\ pc' = "correlated"
    /\ UNCHANGED <<policy, heap, call, earlier, out_file, json_output, opened, data, idx, records, skipped, last, sleep_data, workout_data,
                   daily_data, mpos, merged, err, shown, exit_code>>

\* ================================================== src/tool/reporter.py
\* the instants datetime.now(ZoneInfo('UTC')) may give, in hours
Clock == {H(3, 0), H(3, 1)}

\* str(day) of a date: the text YYYY-MM-DD
str_date(day) == [t |-> "str", kind |-> "date", day |-> day]

\* dt.isoformat() of an aware datetime
isoformat(dt) == JTime("offset", dt.wall, dt.off)

\* min(d.keys()) and max(d.keys())
py_min(S) ==
    IF S = {} THEN Raise("ValueError", [kind |-> "builtin", what |-> "min_empty"])
    ELSE Ok(CHOOSE x \in S : \A y \in S : x <= y)

py_max(S) ==
    IF S = {} THEN Raise("ValueError", [kind |-> "builtin", what |-> "max_empty"])
    ELSE Ok(CHOOSE x \in S : \A y \in S : x >= y)

\* sorted(merged.keys())
RECURSIVE sorted_keys(_)
sorted_keys(S) ==
    IF S = {} THEN <<>>
    ELSE LET lo == py_min(S).v IN <<lo>> \o sorted_keys(S \ {lo})

\* d.get(key, default)
get(d, key, default) == IF key \in DOMAIN d THEN d[key] ELSE default

\* round(x, 2) of the quotient q.num/q.den, in hundredths; a tie goes to the
\* even hundredth
round2(q) ==
    LET n == 100 * q.num
        lo == n \div q.den
        r == n % q.den
    IN IF 2 * r < q.den THEN lo
       ELSE IF 2 * r > q.den THEN lo + 1
       ELSE IF lo % 2 = 0 THEN lo ELSE lo + 1

\* the number 0 given as default to get
Zero == [num |-> 0, den |-> 1]

\* lines 102-113
workout_json(workout) ==
    [id |-> workout.id,
     type |-> workout.workout_type,
     duration_min |-> workout.duration_min,
     calories |-> workout.calories,
     timestamp_utc |-> isoformat(workout.timestamp_utc),
     original_timestamp |-> workout.original_timestamp,
     original_timezone |-> workout.original_timezone,
     day_boundary_crossed |-> workout.crossed_day_boundary]

\* lines 115-127
daily_entry(day, agg, hp) ==
    [date_utc |-> str_date(day),
     sleep |-> IF agg.sleep_hours # None
               THEN [hours |-> agg.sleep_hours, quality_score |-> agg.sleep_quality]
               ELSE JNull,
     workouts |-> [k \in 1..Len(hp[agg.workouts]) |-> workout_json(hp[agg.workouts][k])],
     daily_totals |-> [total_calories |-> agg.total_calories,
                       total_workout_minutes |-> agg.total_workout_minutes,
                       workout_count |-> Len(hp[agg.workouts])]]

\* lines 95-155; the dict display of lines 132-153 is evaluated in order, so
\* min and max are called after the loop and before the correlations are read
generate_json_output(m, hp, workout_records, corr, now) ==
    LET days == sorted_keys(DOMAIN m)
        start == py_min(DOMAIN m)
        end == py_max(DOMAIN m)
    IN IF ~start.ok THEN start
       ELSE IF ~end.ok THEN end
       ELSE Ok([metadata |-> [generated_at |-> isoformat([wall |-> now, aware |-> TRUE, off |-> 0]),
                              total_days |-> Cardinality(DOMAIN m),
                              date_range |-> [start |-> str_date(start.v),
                                              end |-> str_date(end.v)]],
                daily_data |-> [k \in 1..Len(days) |-> daily_entry(days[k], m[days[k]], hp)],
                correlations |->
                    [low_sleep_days |->
                        [count |-> get(corr, "low_sleep_day_count", 0),
                         avg_calories_burned |-> round2(get(corr, "avg_calories_low_sleep", Zero))],
                     good_sleep_days |->
                        [count |-> get(corr, "good_sleep_day_count", 0),
                         avg_calories_burned |-> round2(get(corr, "avg_calories_good_sleep", Zero))],
                     day_boundary_crossings |->
                        Len(SelectSeq(workout_records, LAMBDA w : w.crossed_day_boundary))]])

\* main line 131
Generate ==
    /\ pc = "correlated"
    /\ \E now \in Clock :
         LET r == generate_json_output(merged, heap, workout_data, correlations, now)
         IN IF r.ok
            THEN /\ json_output' = r.v
                 /\ pc' = "generated"
                 /\ UNCHANGED <<err, shown, exit_code>>
            ELSE /\ Exit(r)
                 /\ UNCHANGED json_output
    /\ UNCHANGED <<policy, heap, call, earlier, out_file, correlations, opened, data, idx, records, skipped, last, sleep_data,
                   workout_data, daily_data, mpos, merged>>

\* what open(filepath, 'w') may do: open the file, or fail because the
\* directory does not exist or the file may not be written
SaveOutcomes == {"written", "no_directory", "not_writable"}

\* lines 158-163
save_json_output(output, outcome) ==
    CASE outcome = "written" -> Ok(output)
      [] outcome = "no_directory" -> Raise("FileNotFoundError", [kind |-> "builtin", what |-> "open_output"])
      [] outcome = "not_writable" -> Raise("PermissionError", [kind |-> "builtin", what |-> "open_output"])

\* main line 132, and the return of line 155
Save ==
    /\ pc = "generated"
    /\ \E outcome \in SaveOutcomes :
         LET r == save_json_output(json_output, outcome)
         IN IF r.ok
            THEN /\ out_file' = r.v
                 /\ pc' = "done"
                 /\ exit_code' = 0
                 /\ UNCHANGED <<err, shown>>
            ELSE /\ Exit(r)
                 /\ UNCHANGED out_file
    /\ UNCHANGED <<policy, heap, call, earlier, json_output, correlations, opened, data, idx, records, skipped, last,
                   sleep_data, workout_data, daily_data, mpos, merged>>

Next ==
    \/ LoadSleepOpen
    \/ LoadSleepIterSkip
    \/ LoadSleepIterFailfast
    \/ LoadSleepReturn
    \/ LoadWorkoutOpen
    \/ LoadWorkoutIterSkip
    \/ LoadWorkoutIterFailfast
    \/ LoadWorkoutReturn
    \/ MergeSleepStep
    \/ MergeSleepDone
    \/ MergeWorkoutStep
    \/ MergeReturn
    \/ Correlate
    \/ Generate
    \/ Save

Spec == Init /\ [][Next]_vars

\* merge_by_day is called once more with the same two lists, as a caller that
\* compares two results does; the mapping of the earlier call is kept
MergeAgain ==
    /\ pc = "merged"
    /\ call = 1
    /\ earlier' = merged
    /\ call' = 2
    /\ daily_data' = <<>>
    /\ mpos' = 0
    /\ pc' = "merge_sleep"
    /\ UNCHANGED <<policy, heap, out_file, json_output, correlations, opened, data, idx, records,
                   skipped, last, sleep_data, workout_data, merged, err, shown, exit_code>>

NextTwice ==
    \/ Next
    \/ MergeAgain

SpecTwice == Init /\ [][NextTwice]_vars

TypeOK ==
    /\ policy \in {"skip", "failfast"}
    /\ pc \in {"load_sleep", "sleep_loop", "load_workout", "workout_loop", "merge_sleep",
               "merge_workout", "merged", "correlated", "generated", "done",
               "exit"}
    /\ idx \in 0..Len(data)
    /\ Len(records) + Len(skipped) <= Len(data)
    /\ exit_code \in {-1, 0, 1}
    /\ call \in {1, 2}

\* ============================================================== properties
Range(seq) == { seq[i] : i \in 1..Len(seq) }

\* the sleep records a loader holds or has returned
SleepRecords == (IF pc = "sleep_loop" THEN Range(records) ELSE {}) \cup Range(sleep_data)

\* the workout records a loader holds or has returned
WorkoutRecords == (IF pc = "workout_loop" THEN Range(records) ELSE {}) \cup Range(workout_data)

\* the naive local datetime a workout record was made from
LocalOf(w) == strptime(w.original_timestamp).v

\* the aggregates of merge_by_day, while it runs and after it has returned
Aggregates == { daily_data[d] : d \in DOMAIN daily_data } \cup { merged[d] : d \in DOMAIN merged }

RECURSIVE SumCalories(_)
SumCalories(ws) == IF ws = <<>> THEN 0 ELSE Head(ws).calories + SumCalories(Tail(ws))

RECURSIVE SumMinutes(_)
SumMinutes(ws) == IF ws = <<>> THEN 0 ELSE Head(ws).duration_min + SumMinutes(Tail(ws))

\* C1: every accepted workout record has crossed_day_boundary true exactly when
\* the calendar date of its parsed local timestamp differs from the calendar
\* date of its timestamp_utc.
C1_CrossedIffDatesDiffer ==
    \A w \in WorkoutRecords :
        w.crossed_day_boundary <=> (date(LocalOf(w)) # date(w.timestamp_utc))

\* C1 witness: the loader holds a record that crossed into the next day (zone
\* behind UTC) and one that crossed into the previous day (zone ahead of UTC).
C1_Witness ==
    /\ pc = "workout_loop"
    /\ \E a, b \in Range(records) :
         /\ a.crossed_day_boundary /\ date(a.timestamp_utc) > date(LocalOf(a))
         /\ b.crossed_day_boundary /\ date(b.timestamp_utc) < date(LocalOf(b))

\* C2: every accepted workout record has date_utc equal to the calendar date of
\* its timestamp_utc (so not the local date when the two differ), and a workout
\* is in the workout list of the aggregate of day D only if that date is D.
C2_WorkoutUnderUtcDate ==
    /\ \A w \in WorkoutRecords :
         /\ w.date_utc = date(w.timestamp_utc)
         /\ w.crossed_day_boundary => w.date_utc # date(LocalOf(w))
    /\ \A D \in DOMAIN daily_data : \A w \in Range(heap[daily_data[D].workouts]) :
         date(w.timestamp_utc) = D
    /\ \A D \in DOMAIN merged : \A w \in Range(heap[merged[D].workouts]) :
         date(w.timestamp_utc) = D

\* C2 witness: the merged mapping files a workout that crossed the day boundary
\* under its UTC date.
C2_Witness ==
    /\ pc = "merged"
    /\ \E D \in DOMAIN merged : \E w \in Range(heap[merged[D].workouts]) :
         w.crossed_day_boundary /\ date(LocalOf(w)) # D

\* C3: every accepted sleep record has date_utc equal to the calendar date of
\* its sleep_end_utc, and not that of sleep_start_utc when the sleep ends on
\* another day than it started.
C3_SleepDateIsWakeUpDate ==
    \A r \in SleepRecords :
        /\ r.date_utc = date(r.sleep_end_utc)
        /\ date(r.sleep_start_utc) # date(r.sleep_end_utc) => r.date_utc # date(r.sleep_start_utc)

\* C3 witness: the loader returned a record of a sleep that started on one day
\* and ended on the next.
C3_Witness ==
    /\ pc = "load_workout"
    /\ \E r \in Range(sleep_data) : date(r.sleep_end_utc) = date(r.sleep_start_utc) + 1

\* C4: after every step of merge_by_day each aggregate's total_calories is the
\* sum of the calories of its workouts and its total_workout_minutes the sum
\* of their duration_min.
C4_TotalsEqualSums ==
    \A a \in Aggregates :
        /\ a.total_calories = SumCalories(heap[a.workouts])
        /\ a.total_workout_minutes = SumMinutes(heap[a.workouts])

\* C4 witness: in the middle of the workout loop an aggregate holds two
\* workouts that both burned calories.
C4_Witness ==
    /\ pc = "merge_workout"
    /\ \E D \in DOMAIN daily_data :
         /\ Len(heap[daily_data[D].workouts]) = 2
         /\ \A w \in Range(heap[daily_data[D].workouts]) : w.calories > 0

\* C5: the mapping merge_by_day returns has exactly the date_utc values of the
\* sleep records and of the workout records as keys, and each aggregate's
\* date_utc is its key.
C5_KeysAreTouchedDates ==
    pc = "merged" =>
        /\ DOMAIN merged = { r.date_utc : r \in Range(sleep_data) }
                           \cup { w.date_utc : w \in Range(workout_data) }
        /\ \A D \in DOMAIN merged : merged[D].date_utc = D

\* C5 witness: the returned mapping has a day that only a sleep record touched
\* and a day that only a workout touched.
C5_Witness ==
    /\ pc = "merged"
    /\ \E D1, D2 \in DOMAIN merged :
         /\ merged[D1].sleep_hours # None /\ heap[merged[D1].workouts] = <<>>
         /\ merged[D2].sleep_hours = None /\ heap[merged[D2].workouts] # <<>>

InLoop == pc \in {"sleep_loop", "workout_loop"}

\* the indices the loader has skipped
SkippedIdx == { skipped[k][1] : k \in 1..Len(skipped) }

\* the entries, in input order, that the loader has taken and not skipped
ValidEntries ==
    LET taken == [i \in 1..idx |-> i - 1]
        kept == SelectSeq(taken, LAMBDA i : i \notin SkippedIdx)
    IN [k \in 1..Len(kept) |-> data[kept[k] + 1]]

\* the loop body of either module for the file being loaded
ToolBody(e, i) == IF pc = "sleep_loop" THEN tool_sleep_body(e, i) ELSE tool_workout_body(e, i)
StrictBody(e, i) == IF pc = "sleep_loop" THEN strict_sleep_body(e, i) ELSE strict_workout_body(e, i)

\* C6: the records the skip-and-warn loader holds are, in order, the records
\* the fail-fast loader makes of the entries that were not skipped, and it makes
\* a record of each of them; and the records the fail-fast loader holds (every
\* entry so far was valid) are the records the skip-and-warn loader makes of
\* the same entries.
C6_PoliciesAgreeOnValidRecords ==
    /\ (policy = "skip" /\ InLoop) =>
          /\ Len(records) = Len(ValidEntries)
          /\ \A k \in 1..Len(ValidEntries) :
               LET r == StrictBody(ValidEntries[k], k - 1)
               IN r.outcome = "record" /\ r.rec = records[k]
    /\ (policy = "failfast" /\ InLoop) =>
          /\ Len(records) = idx
          /\ \A k \in 1..idx :
               LET r == ToolBody(data[k], k - 1)
               IN r.outcome = "record" /\ r.rec = records[k]

\* C6 witness: the skip-and-warn workout loader is at the end of a file of
\* which it skipped the first entry and accepted the second, a workout that
\* crossed the day boundary.
C6_Witness ==
    /\ policy = "skip"
    /\ pc = "workout_loop"
    /\ idx = Len(data)
    /\ SkippedIdx = {0}
    /\ Len(records) = 1
    /\ records[1].crossed_day_boundary

\* C7: under the skip-and-warn policy no entry of a structurally valid file
\* aborts the load, and the records and the skipped pairs together count the
\* entries taken.
C7_SkipLoadRunsToEnd ==
    policy = "skip" =>
        /\ ~(pc = "exit" /\ last.index >= 0)
        /\ InLoop => Len(records) + Len(skipped) = idx

\* C8: under the fail-fast policy a load that a record aborts raises an error
\* that names the index of that record and the underlying cause; the record is
\* the first invalid one and nothing is returned.
C8_FailfastNamesIndexAndCause ==
    (policy = "failfast" /\ pc = "exit" /\ last.index >= 0) =>
        /\ last.index = idx
        /\ Len(records) = idx
        /\ last.result.outcome = "raise"
        /\ IF last.loader = "sleep" THEN sleep_data = <<>> ELSE workout_data = <<>>
        /\ err.exc = "ValueError"
        /\ err.msg.kind = "error_processing"
        /\ err.msg.index = last.index
        /\ err.msg.cause = last.result.msg

Required(loader) == IF loader = "sleep" THEN SLEEP_REQUIRED_FIELDS ELSE WORKOUT_REQUIRED_FIELDS

\* the entry the last iteration took
LastEntry == data[last.index + 1]

\* C9: an entry (an object) that lacks a required field is rejected by the
\* validation step, nothing after that step is attempted on it, and the error
\* names exactly the required fields that are absent.
C9_MissingFieldsRejectedFirst ==
    (last.index >= 0 /\ LastEntry.t = "dict"
       /\ Required(last.loader) \ keys(LastEntry) # {}) =>
        /\ last.result.outcome = "raise"
        /\ last.result.steps = <<"validate">>
        /\ last.result.exc = "ValueError"
        /\ last.result.msg.kind = "missing_fields"
        /\ last.result.msg.index = last.index
        /\ Range(last.result.msg.fields) = Required(last.loader) \ keys(LastEntry)
        /\ Len(last.result.msg.fields) = Cardinality(Required(last.loader) \ keys(LastEntry))
        /\ IF policy = "skip"
           THEN /\ InLoop
                /\ skipped # <<>>
                /\ skipped[Len(skipped)] = <<last.index, last.result.msg>>
           ELSE pc = "exit"

\* C9 witness: the last entry was a workout without tz and calories whose
\* timestamp does not parse.
C9_Witness ==
    /\ last.index >= 0
    /\ last.loader = "workout"
    /\ LastEntry.t = "dict"
    /\ WORKOUT_REQUIRED_FIELDS \ keys(LastEntry) = {"tz", "calories"}
    /\ ~strptime(LastEntry.f.timestamp).ok

\* a raw value that is an integer (a number without fraction, or its literal)
\* within lo..hi
RawIntegerIn(x, lo, hi) ==
    CASE x.t = "int" -> lo <= x.v /\ x.v <= hi
      [] x.t = "float" -> x.v2 % Den = 0 /\ lo * Den <= x.v2 /\ x.v2 <= hi * Den
      [] x.t = "str" -> x.kind = "int" /\ lo <= x.v /\ x.v <= hi
      [] OTHER -> FALSE

\* a raw value that is an integer, at least lo
RawIntegerAtLeast(x, lo) ==
    CASE x.t = "int" -> lo <= x.v
      [] x.t = "float" -> x.v2 % Den = 0 /\ lo * Den <= x.v2
      [] x.t = "str" -> x.kind = "int" /\ lo <= x.v
      [] OTHER -> FALSE

\* a raw value that is a number within lo..hi
RawNumberIn(x, lo, hi) ==
    CASE x.t = "int" -> lo <= x.v /\ x.v <= hi
      [] x.t = "float" -> lo * Den <= x.v2 /\ x.v2 <= hi * Den
      [] x.t = "str" -> x.kind = "int" /\ lo <= x.v /\ x.v <= hi
      [] OTHER -> FALSE

\* C10: an entry is accepted only if its raw duration_hours is within [0,24]
\* and its raw quality_score an integer within [0,100] (sleep), or its raw
\* duration_min an integer within [0,1440] and its raw calories an integer that
\* is not negative (workout).
C10_AcceptedOnlyInRange ==
    InLoop =>
        \A k \in 1..Len(ValidEntries) :
            LET e == ValidEntries[k]
            IN IF pc = "sleep_loop"
               THEN /\ RawNumberIn(e.f.duration_hours, 0, MaxDurationHours)
                    /\ RawIntegerIn(e.f.quality_score, 0, MaxQuality)
               ELSE /\ RawIntegerIn(e.f.duration_min, 0, MaxDurationMin)
                    /\ RawIntegerAtLeast(e.f.calories, 0)

\* the key the loader looks for at the top level of its file
TopKey(loader) == IF loader = "sleep" THEN "records" ELSE "workout_log"

\* the four file-level errors: the file is missing, is not JSON, has no such
\* top-level key, or has a value under it that is not a list
FileLevelError(file, key) ==
    \/ file.disk \in {"missing", "malformed"}
    \/ file.top.t = "dict" /\ key \notin DOMAIN file.top.f
    \/ file.top.t = "dict" /\ key \in DOMAIN file.top.f /\ file.top.f[key].t # "list"

\* C11: under both policies a file that is missing, is malformed JSON, lacks
\* the top-level key or holds a value under it that is not a list makes the
\* load raise: main ends in its handlers, the loader returned no records, and
\* no entry was validated or normalized.
C11_FileLevelErrorsFatal ==
    (opened # NoFile /\ FileLevelError(opened.file, TopKey(opened.loader))) =>
        /\ pc = "exit"
        /\ exit_code = 1
        /\ err.exc = (CASE opened.file.disk = "missing" -> "FileNotFoundError"
                       [] opened.file.disk = "malformed" -> "ValueError"
                       [] TopKey(opened.loader) \notin DOMAIN opened.file.top.f -> "KeyError"
                       [] OTHER -> "TypeError")
        /\ last = NoLast
        /\ data = <<>> /\ idx = 0 /\ records = <<>> /\ skipped = <<>>
        /\ IF opened.loader = "sleep" THEN sleep_data = <<>> ELSE workout_data = <<>>
        /\ merged = <<>>

\* C11 witness: under the fail-fast policy the workout loader, called after a
\* sleep load that returned a record, opened a file whose workout_log is not a
\* list.
C11_Witness ==
    /\ policy = "failfast"
    /\ opened # NoFile
    /\ opened.loader = "workout"
    /\ opened.file.disk = "json"
    /\ opened.file.top.t = "dict"
    /\ "workout_log" \in DOMAIN opened.file.top.f
    /\ opened.file.top.f["workout_log"].t # "list"
    /\ sleep_data # <<>>
    /\ pc = "exit"

\* C12: after calculate_correlations a day is in the low-sleep bucket exactly
\* when it has a sleep value below 6 and total_calories above 0, and in the
\* good-sleep bucket exactly when it has a sleep value of at least 7 and
\* total_calories above 0; no day is in both, and a day with sleep in [6,7),
\* without sleep or with no calories is in neither. A bucket with days reports
\* their number and the mean of their total_calories; a bucket without days
\* reports nothing.
C12_BucketsCountAndAverage ==
    pc = "correlated" =>
        LET Days == DOMAIN merged
            Slept(d) == merged[d].sleep_hours # None
            Low == { d \in Days : Slept(d) /\ merged[d].sleep_hours < 6 * Den
                                           /\ merged[d].total_calories > 0 }
            Good == { d \in Days : Slept(d) /\ merged[d].sleep_hours >= 7 * Den
                                            /\ merged[d].total_calories > 0 }
            Neither == { d \in Days : \/ ~Slept(d)
                                      \/ merged[d].total_calories = 0
                                      \/ /\ merged[d].sleep_hours >= 6 * Den
                                         /\ merged[d].sleep_hours < 7 * Den }
            Sum(S) == sum_calories(merged, S)
        IN /\ Low \cap Good = {}
           /\ Neither \cap (Low \cup Good) = {}
           /\ Neither \cup Low \cup Good = Days
           /\ IF Low = {}
              THEN {"low_sleep_day_count", "avg_calories_low_sleep"} \cap DOMAIN correlations = {}
              ELSE /\ correlations.low_sleep_day_count = Cardinality(Low)
                   /\ correlations.avg_calories_low_sleep.num = Sum(Low)
                   /\ correlations.avg_calories_low_sleep.den = Cardinality(Low)
           /\ IF Good = {}
              THEN {"good_sleep_day_count", "avg_calories_good_sleep"} \cap DOMAIN correlations = {}
              ELSE /\ correlations.good_sleep_day_count = Cardinality(Good)
                   /\ correlations.avg_calories_good_sleep.num = Sum(Good)
                   /\ correlations.avg_calories_good_sleep.den = Cardinality(Good)

\* C12 witness: the good-sleep bucket has two days that burned different
\* numbers of calories, so the reported average is the total of neither.
C12_Witness ==
    /\ pc = "correlated"
    /\ "good_sleep_day_count" \in DOMAIN correlations
    /\ correlations.good_sleep_day_count = 2
    /\ \A d \in DOMAIN merged :
         merged[d].total_calories * 2 # correlations.avg_calories_good_sleep.num

\* generate_json_output has been called
GenerateCalled ==
    \/ pc \in {"generated", "done"}
    \/ pc = "exit" /\ err.at \in {"correlated", "generated"}

\* C13: once generate_json_output has been called for a mapping in which no
\* day has sleep_hours below 6 and total_calories above 0, there is an output
\* and its low_sleep_days entry has count 0 and avg_calories_burned 0, and
\* likewise its good_sleep_days entry when no day has sleep_hours of at least
\* 7 and total_calories above 0; no division or statistics error is raised.
C13_EmptyBucketReportsZero ==
    GenerateCalled =>
        LET Slept(d) == merged[d].sleep_hours # None
            Low == { d \in DOMAIN merged : Slept(d) /\ merged[d].sleep_hours < 6 * Den
                                                    /\ merged[d].total_calories > 0 }
            Good == { d \in DOMAIN merged : Slept(d) /\ merged[d].sleep_hours >= 7 * Den
                                                     /\ merged[d].total_calories > 0 }
        IN /\ err.exc \notin {"ZeroDivisionError", "StatisticsError"}
           /\ Low = {} =>
                 /\ json_output # NoOutput
                 /\ json_output.correlations.low_sleep_days.count = 0
                 /\ json_output.correlations.low_sleep_days.avg_calories_burned = 0
           /\ Good = {} =>
                 /\ json_output # NoOutput
                 /\ json_output.correlations.good_sleep_days.count = 0
                 /\ json_output.correlations.good_sleep_days.avg_calories_burned = 0

\* the rule of C13 in the runs in which generate_json_output returned
EmptyBucketReportsZeroInOutput ==
    json_output # NoOutput =>
        /\ "low_sleep_day_count" \notin DOMAIN correlations =>
              json_output.correlations.low_sleep_days = [count |-> 0, avg_calories_burned |-> 0]
        /\ "good_sleep_day_count" \notin DOMAIN correlations =>
              json_output.correlations.good_sleep_days = [count |-> 0, avg_calories_burned |-> 0]

\* C15: once generate_json_output has been called, for the empty mapping too,
\* it has returned an output whose daily_data has one entry for each date of
\* the records, in strictly ascending order of date, whose total_days is the
\* number of distinct dates and whose date_range runs from the least to the
\* greatest date.
C15_OutputCoversEveryDate ==
    GenerateCalled =>
        LET Dates == { r.date_utc : r \in Range(sleep_data) }
                     \cup { w.date_utc : w \in Range(workout_data) }
            dl == json_output.daily_data
        IN /\ json_output # NoOutput
           /\ { dl[k].date_utc.day : k \in 1..Len(dl) } = Dates
           /\ \A k \in 1..(Len(dl) - 1) : dl[k].date_utc.day < dl[k + 1].date_utc.day
           /\ json_output.metadata.total_days = Cardinality(Dates)
           /\ \A d \in Dates : /\ json_output.metadata.date_range.start.day <= d
                                /\ json_output.metadata.date_range.end.day >= d
           /\ Dates # {} => /\ json_output.metadata.date_range.start.day \in Dates
                            /\ json_output.metadata.date_range.end.day \in Dates

\* the properties of C15 in the runs in which generate_json_output returned
OutputCoversEveryDateInOutput == json_output # NoOutput => C15_OutputCoversEveryDate

\* the taxonomy category of an error, by the message its raise statement gives
ErrorCategory(e) ==
    CASE e.msg.kind = "file_not_found" -> "file access"
      [] e.msg.kind = "invalid_json" -> "malformed JSON"
      [] e.msg.kind \in {"missing_key", "not_a_list"} -> "structure"
      [] e.msg.kind = "error_processing" -> "record validation"
      [] OTHER -> "other"

Categories == {"file access", "malformed JSON", "structure", "record validation"}

\* the exception classes the loaders raise for a category
RaisedAs(c) ==
    CASE c = "file access" -> {"FileNotFoundError"}
      [] c = "malformed JSON" -> {"ValueError"}
      [] c = "structure" -> {"KeyError", "TypeError"}
      [] c = "record validation" -> {"ValueError"}

\* every phase of main has completed
EveryPhaseCompleted ==
    /\ pc = "done"
    /\ err = NoErr
    /\ shown = ""
    /\ merged = daily_data
    /\ DOMAIN merged = { r.date_utc : r \in Range(sleep_data) }
                       \cup { w.date_utc : w \in Range(workout_data) }
    /\ json_output # NoOutput
    /\ json_output.metadata.total_days = Cardinality(DOMAIN merged)
    /\ out_file = json_output

\* C14 as stated: an error that reaches main ends the run with a message and
\* exit value 1, the message of an error of one taxonomy category is the
\* message of no other category, and exit value 0 is returned only when every
\* phase completed.
C14_EachCategoryOwnMessage ==
    /\ pc = "exit" => shown # "" /\ exit_code = 1
    /\ exit_code = 0 => EveryPhaseCompleted
    /\ (pc = "exit" /\ ErrorCategory(err) \in Categories) =>
          \A c \in Categories \ {ErrorCategory(err)} :
              \A x \in RaisedAs(c) : main_handler(x) # shown

\* C14 amended: an error that reaches main ends the run with exit value 1 and
\* the message of its exception class: File Error for FileNotFoundError, Data
\* Structure Error for KeyError and TypeError, Data Validation Error for
\* ValueError (malformed JSON and a wrapped record error alike) and Unexpected
\* error for any other; exit value 0 is returned only when every phase
\* completed, and no exit value before that.
C14_MessageByExceptionClass ==
    /\ pc = "exit" =>
          /\ exit_code = 1
          /\ shown = (CASE err.exc = "FileNotFoundError" -> "File Error"
                        [] err.exc \in {"KeyError", "TypeError"} -> "Data Structure Error"
                        [] err.exc = "ValueError" -> "Data Validation Error"
                        [] OTHER -> "Unexpected error")
          /\ ErrorCategory(err) = "file access" => shown = "File Error"
          /\ ErrorCategory(err) = "structure" => shown = "Data Structure Error"
          /\ ErrorCategory(err) \in {"malformed JSON", "record validation"} =>
                shown = "Data Validation Error"
    /\ exit_code = 0 => EveryPhaseCompleted
    /\ pc \notin {"exit", "done"} => exit_code = -1 /\ shown = ""

\* C14 witness: the sleep load returned a record and the workout file is not
\* JSON; main printed the message that record errors get too.
C14_Witness ==
    /\ pc = "exit"
    /\ sleep_data # <<>>
    /\ err.at = "load_workout"
    /\ ErrorCategory(err) = "malformed JSON"
    /\ shown = "Data Validation Error"
    /\ exit_code = 1

\* the list objects of the aggregates of a mapping
ListsOf(m) == { m[d].workouts : d \in DOMAIN m }

\* the workouts of date d, in input order
WorkoutsOn(d) == SelectSeq(workout_data, LAMBDA w : w.date_utc = d)

\* C16: when merge_by_day has returned for the second time on the same two
\* lists, the two mappings have the same keys and, for each key, the same
\* date, sleep fields and totals and workout lists of the same content, which
\* is the workouts of that date in input order, for the first mapping as it
\* is now and for the second; and at no time do two aggregates, of one mapping
\* or of the two, hold the same list object.
C16_MergeTwiceSameResult ==
    /\ (call = 2 /\ pc = "merged") =>
          /\ DOMAIN merged = DOMAIN earlier
          /\ \A d \in DOMAIN merged :
                /\ merged[d].date_utc = earlier[d].date_utc
                /\ merged[d].sleep_hours = earlier[d].sleep_hours
                /\ merged[d].sleep_quality = earlier[d].sleep_quality
                /\ merged[d].total_calories = earlier[d].total_calories
                /\ merged[d].total_workout_minutes = earlier[d].total_workout_minutes
                /\ heap[merged[d].workouts] = heap[earlier[d].workouts]
                /\ heap[merged[d].workouts] = WorkoutsOn(d)
                /\ heap[earlier[d].workouts] = WorkoutsOn(d)
    /\ \A d1, d2 \in DOMAIN daily_data :
          d1 # d2 => daily_data[d1].workouts # daily_data[d2].workouts
    /\ \A d1, d2 \in DOMAIN earlier :
          d1 # d2 => earlier[d1].workouts # earlier[d2].workouts
    /\ call = 2 => ListsOf(earlier) \cap ListsOf(daily_data) = {}

\* C16 witness: the second call has returned a mapping of two days, one of
\* which has two workouts.
C16_Witness ==
    /\ call = 2
    /\ pc = "merged"
    /\ Cardinality(DOMAIN merged) = 2
    /\ \E d \in DOMAIN merged :
         /\ Len(heap[merged[d].workouts]) = 2
         /\ heap[merged[d].workouts][1] # heap[merged[d].workouts][2]

\* the sleep records of date d among the first n, in input order
SleepOn(d, n) == SelectSeq(SubSeq(sleep_data, 1, n), LAMBDA r : r.date_utc = d)

\* the workouts of date d among the first n, in input order
WorkoutsOnSoFar(d, n) == SelectSeq(SubSeq(workout_data, 1, n), LAMBDA w : w.date_utc = d)

\* how many sleep records, and how many workouts, merge_by_day has taken
SleepTaken == IF pc = "merge_sleep" THEN mpos ELSE Len(sleep_data)
WorkoutsTaken ==
    IF pc = "merge_sleep" THEN 0 ELSE IF pc = "merge_workout" THEN mpos ELSE Len(workout_data)

\* C17: after every step of merge_by_day the aggregate of a date holds the
\* sleep_hours and the sleep_quality of the last sleep record of that date
\* taken so far, both of that one record (and None if there is none), and
\* its workout list and totals are those of the workouts taken so far alone,
\* whatever the sleep records are.
C17_LastSleepRecordWins ==
    pc \in {"merge_sleep", "merge_workout", "merged"} =>
        \A d \in DOMAIN daily_data :
            LET ss == SleepOn(d, SleepTaken)
                ws == WorkoutsOnSoFar(d, WorkoutsTaken)
            IN /\ IF ss = <<>>
                  THEN daily_data[d].sleep_hours = None /\ daily_data[d].sleep_quality = None
                  ELSE /\ daily_data[d].sleep_hours = ss[Len(ss)].duration_hours
                       /\ daily_data[d].sleep_quality = ss[Len(ss)].quality_score
               /\ heap[daily_data[d].workouts] = ws
               /\ daily_data[d].total_calories = SumCalories(ws)
               /\ daily_data[d].total_workout_minutes = SumMinutes(ws)

\* C17 witness: merge_by_day returned an aggregate of a date with two sleep
\* records that differ in hours and in quality, and with a workout that burned
\* calories.
C17_Witness ==
    /\ pc = "merged"
    /\ \E d \in DOMAIN merged :
         LET ss == SleepOn(d, Len(sleep_data))
         IN /\ Len(ss) = 2
            /\ ss[1].duration_hours # ss[2].duration_hours
            /\ ss[1].quality_score # ss[2].quality_score
            /\ merged[d].sleep_hours = ss[2].duration_hours
            /\ merged[d].total_calories > 0

\* the last entry taken is a workout with every required field, a timestamp
\* that does not parse and a zone identifier that is not in the database
BadTimestampAndUnknownZone ==
    /\ last.index >= 0
    /\ last.loader = "workout"
    /\ LastEntry.t = "dict"
    /\ WORKOUT_REQUIRED_FIELDS \subseteq keys(LastEntry)
    /\ ~strptime(LastEntry.f.timestamp).ok
    /\ ~ZoneInfo(LastEntry.f.tz).ok
    /\ ZoneInfo(LastEntry.f.tz).exc = "ZoneInfoNotFoundError"

\* C18 as stated: for a workout entry with every required field, a malformed
\* timestamp and an unrecognized zone identifier, the loader parses the
\* timestamp before it resolves the zone and reports the timestamp format
\* error.
C18_TimestampErrorReported ==
    BadTimestampAndUnknownZone =>
        /\ last.result.outcome = "raise"
        /\ last.result.msg.kind = "invalid_timestamp"
        /\ "resolve_tz" \notin Range(last.result.steps)

\* C18 amended: for such an entry the loader resolves the zone before it
\* parses the timestamp and reports the zone resolution error, under both
\* policies; the timestamp is never parsed.
C18_TimezoneErrorReported ==
    BadTimestampAndUnknownZone =>
        /\ last.result.outcome = "raise"
        /\ last.result.exc = "ValueError"
        /\ last.result.msg.kind = "invalid_timezone"
        /\ last.result.steps = <<"validate", "resolve_tz">>
        /\ IF policy = "skip"
           THEN /\ InLoop
                /\ skipped # <<>>
                /\ skipped[Len(skipped)] = <<last.index, last.result.msg>>
           ELSE /\ pc = "exit"
                /\ err.msg.kind = "error_processing"
                /\ err.msg.cause = last.result.msg

\* C18 witness: the skip-and-warn loader has skipped such an entry that came
\* after an entry it accepted.
C18_Witness ==
    /\ BadTimestampAndUnknownZone
    /\ policy = "skip"
    /\ last.index = 1
    /\ Len(records) = 1

====
